---- MODULE Spec2Model ----
(***************************************************************************)
(* Veritasor attestation contract (contracts/attestation/src/lib.rs):      *)
(* the instance storage of one contract, the five entry points that read   *)
(* or write it, and the paginated query get_attestations_page.             *)
(*                                                                         *)
(* A Soroban invocation is atomic: a panic rolls back every write of the   *)
(* invocation, so a failed call leaves the storage as it was.              *)
(***************************************************************************)
EXTENDS Integers, Sequences, FiniteSets, TLC

(* ---------------------------- constants of lib.rs ---------------------- *)
STATUS_KEY_TAG == 1
ADMIN_KEY_TAG == <<2>>
QUERY_LIMIT_MAX == 30
STATUS_ACTIVE == 0
STATUS_REVOKED == 1
STATUS_FILTER_ALL == 2

(* ------------------------------- bounds -------------------------------- *)
\* longest list of periods enumerated element by element
MaxLen == 2
\* length of the one long list of periods (longer than QUERY_LIMIT_MAX)
LongLen == 50
\* most calls of one pagination walk
MaxCalls == 4

(* ------------------------------ input sets ----------------------------- *)
\* A period is a String: a sequence of bytes, ordered as String::cmp orders it.
Q1 == <<1>>
Q1x == <<1, 2>>
Q2 == <<2>>
Q9 == <<9>>

Businesses == {"A", "B"}
Addresses == {"Admin", "Other"}
\* the periods attested, and the periods a list of candidates may hold
Periods == {Q1, Q1x}
ListPeriods == {Q1, Q1x, Q2}
\* the (business, period) keys the calls name: two periods of one business,
\* and one of them for the other business as well
Keys == (Businesses \X Periods) \ {<<"B", Q1x>>}
\* (merkle_root, timestamp, version)
Data == {<<"R1", 1000, 1>>, <<"R2", 2000, 2>>}
Roots == {"R1", "R2"}

\* Option<T>
None == <<>>
Some(x) == <<x>>

\* panic messages of lib.rs; AuthError is the host error of require_auth
NoErr == "ok"
AuthError == "auth"
DuplicateAttestation == "attestation already exists for this business and period"
AdminAlreadySet == "admin already set"
AdminNotSet == "admin not set"
NotAdmin == "caller is not admin"
AttestationNotFound == "attestation does not exist"

(* --------------------------- instance storage -------------------------- *)
\* env.storage().instance(): a map from keys to values.  The three kinds of
\* key are tuples of different lengths: (business, period) for a record,
\* (STATUS_KEY_TAG, business, period) for a status, ADMIN_KEY_TAG for the admin.
has(st, key) == key \in DOMAIN st

get(st, key) == IF key \in DOMAIN st THEN Some(st[key]) ELSE None

set(st, key, val) ==
    [k \in (DOMAIN st) \cup {key} |-> IF k = key THEN val ELSE st[k]]

EmptyStorage == [k \in {} |-> 0]

\* caller.require_auth(): passes when the address authorised the invocation
require_auth(invoker, addr) == invoker = addr

(* ------------------------------ entry points --------------------------- *)
\* Each entry point maps the storage before the call to the error (NoErr on
\* success), the returned value and the storage after the call.
Outcome(err, ret, st) == [err |-> err, ret |-> ret, st |-> st]

submit_attestation_silent(st, business, period, merkle_root, timestamp, version) ==
    LET key == <<business, period>>
        data == <<merkle_root, timestamp, version>>
        status_key == <<STATUS_KEY_TAG, business, period>>
    IN  IF has(st, key)
        THEN Outcome(NoErr, None, st)
        ELSE Outcome(NoErr, None, set(set(st, key, data), status_key, STATUS_ACTIVE))

submit_attestation_overwrite(st, business, period, merkle_root, timestamp, version) ==
    LET key == <<business, period>>
        data == <<merkle_root, timestamp, version>>
        status_key == <<STATUS_KEY_TAG, business, period>>
    IN  Outcome(NoErr, None, set(set(st, key, data), status_key, STATUS_ACTIVE))

submit_attestation_nostatus(st, business, period, merkle_root, timestamp, version) ==
    LET key == <<business, period>>
        data == <<merkle_root, timestamp, version>>
    IN  IF has(st, key)
        THEN Outcome(DuplicateAttestation, None, st)
        ELSE Outcome(NoErr, None, set(st, key, data))

submit_attestation_needadmin(st, business, period, merkle_root, timestamp, version) ==
    LET key == <<business, period>>
        data == <<merkle_root, timestamp, version>>
        status_key == <<STATUS_KEY_TAG, business, period>>
    IN  IF ~has(st, ADMIN_KEY_TAG)
        THEN Outcome(AdminNotSet, None, st)
        ELSE IF has(st, key)
        THEN Outcome(DuplicateAttestation, None, st)
        ELSE Outcome(NoErr, None, set(set(st, key, data), status_key, STATUS_ACTIVE))

submit_attestation(st, business, period, merkle_root, timestamp, version) ==
    LET key == <<business, period>>
        data == <<merkle_root, timestamp, version>>
        status_key == <<STATUS_KEY_TAG, business, period>>
    IN  IF has(st, key)
        THEN Outcome(DuplicateAttestation, None, st)
        ELSE Outcome(NoErr, None, set(set(st, key, data), status_key, STATUS_ACTIVE))

get_attestation(st, business, period) == get(st, <<business, period>>)

verify_attestation_anyroot(st, business, period, merkle_root) ==
    LET found == get_attestation(st, business, period)
    IN  IF found # None THEN TRUE ELSE FALSE

verify_attestation(st, business, period, merkle_root) ==
    LET found == get_attestation(st, business, period)
    IN  IF found # None THEN found[1][1] = merkle_root ELSE FALSE

init_reinit(st, invoker, admin) ==
    IF ~require_auth(invoker, admin)
    THEN Outcome(AuthError, None, st)
    ELSE Outcome(NoErr, None, set(st, ADMIN_KEY_TAG, admin))

init_noauth(st, invoker, admin) ==
    IF has(st, ADMIN_KEY_TAG)
    THEN Outcome(AdminAlreadySet, None, st)
    ELSE Outcome(NoErr, None, set(st, ADMIN_KEY_TAG, admin))

init(st, invoker, admin) ==
    IF ~require_auth(invoker, admin)
    THEN Outcome(AuthError, None, st)
    ELSE IF has(st, ADMIN_KEY_TAG)
    THEN Outcome(AdminAlreadySet, None, st)
    ELSE Outcome(NoErr, None, set(st, ADMIN_KEY_TAG, admin))

revoke_attestation_anyone(st, invoker, caller, business, period) ==
    LET attest_key == <<business, period>>
        status_key == <<STATUS_KEY_TAG, business, period>>
    IN  IF ~require_auth(invoker, caller)
        THEN Outcome(AuthError, None, st)
        ELSE IF ~has(st, ADMIN_KEY_TAG)
        THEN Outcome(AdminNotSet, None, st)
        ELSE IF ~has(st, attest_key)
        THEN Outcome(AttestationNotFound, None, st)
        ELSE Outcome(NoErr, None, set(st, status_key, STATUS_REVOKED))

revoke_attestation_delete(st, invoker, caller, business, period) ==
    LET attest_key == <<business, period>>
        status_key == <<STATUS_KEY_TAG, business, period>>
    IN  IF ~require_auth(invoker, caller)
        THEN Outcome(AuthError, None, st)
        ELSE IF ~has(st, ADMIN_KEY_TAG)
        THEN Outcome(AdminNotSet, None, st)
        ELSE IF caller # st[ADMIN_KEY_TAG]
        THEN Outcome(NotAdmin, None, st)
        ELSE IF ~has(st, attest_key)
        THEN Outcome(AttestationNotFound, None, st)
        ELSE Outcome(NoErr, None,
                     [k \in (DOMAIN st) \ {attest_key, status_key} |-> st[k]])

revoke_attestation_recordfirst(st, invoker, caller, business, period) ==
    LET attest_key == <<business, period>>
        status_key == <<STATUS_KEY_TAG, business, period>>
    IN  IF ~require_auth(invoker, caller)
        THEN Outcome(AuthError, None, st)
        ELSE IF ~has(st, attest_key)
        THEN Outcome(AttestationNotFound, None, st)
        ELSE IF ~has(st, ADMIN_KEY_TAG)
        THEN Outcome(AdminNotSet, None, st)
        ELSE IF caller # st[ADMIN_KEY_TAG]
        THEN Outcome(NotAdmin, None, st)
        ELSE Outcome(NoErr, None, set(st, status_key, STATUS_REVOKED))

revoke_attestation_wipe(st, invoker, caller, business, period) ==
    LET attest_key == <<business, period>>
        status_key == <<STATUS_KEY_TAG, business, period>>
    IN  IF ~require_auth(invoker, caller)
        THEN Outcome(AuthError, None, st)
        ELSE IF ~has(st, ADMIN_KEY_TAG)
        THEN Outcome(AdminNotSet, None, st)
        ELSE IF caller # st[ADMIN_KEY_TAG]
        THEN Outcome(NotAdmin, None, st)
        ELSE IF ~has(st, attest_key)
        THEN Outcome(AttestationNotFound, None, st)
        ELSE Outcome(NoErr, None,
                     set(set(st, attest_key, <<"revoked", 0, 0>>), status_key, STATUS_REVOKED))

revoke_attestation_allperiods(st, invoker, caller, business, period) ==
    LET attest_key == <<business, period>>
        status_key == <<STATUS_KEY_TAG, business, period>>
    IN  IF ~require_auth(invoker, caller)
        THEN Outcome(AuthError, None, st)
        ELSE IF ~has(st, ADMIN_KEY_TAG)
        THEN Outcome(AdminNotSet, None, st)
        ELSE IF caller # st[ADMIN_KEY_TAG]
        THEN Outcome(NotAdmin, None, st)
        ELSE IF ~has(st, attest_key)
        THEN Outcome(AttestationNotFound, None, st)
        ELSE Outcome(NoErr, None,
                     [k \in DOMAIN st |->
                        IF Len(k) = 3 /\ k[2] = business THEN STATUS_REVOKED ELSE st[k]])

revoke_attestation_norecordcheck(st, invoker, caller, business, period) ==
    LET status_key == <<STATUS_KEY_TAG, business, period>>
    IN  IF ~require_auth(invoker, caller)
        THEN Outcome(AuthError, None, st)
        ELSE IF ~has(st, ADMIN_KEY_TAG)
        THEN Outcome(AdminNotSet, None, st)
        ELSE IF caller # st[ADMIN_KEY_TAG]
        THEN Outcome(NotAdmin, None, st)
        ELSE Outcome(NoErr, None, set(st, status_key, STATUS_REVOKED))

revoke_attestation(st, invoker, caller, business, period) ==
    LET attest_key == <<business, period>>
        status_key == <<STATUS_KEY_TAG, business, period>>
    IN  IF ~require_auth(invoker, caller)
        THEN Outcome(AuthError, None, st)
        ELSE IF ~has(st, ADMIN_KEY_TAG)
        THEN Outcome(AdminNotSet, None, st)
        ELSE IF caller # st[ADMIN_KEY_TAG]
        THEN Outcome(NotAdmin, None, st)
        ELSE IF ~has(st, attest_key)
        THEN Outcome(AttestationNotFound, None, st)
        ELSE Outcome(NoErr, None, set(st, status_key, STATUS_REVOKED))

get_status(st, business, period) ==
    LET key == <<STATUS_KEY_TAG, business, period>>
        found == get(st, key)
    IN  IF found # None THEN found[1] ELSE STATUS_ACTIVE

(* --------------------------- paginated query --------------------------- *)
Min(a, b) == IF a < b THEN a ELSE b

\* Ordering of two Strings: byte-wise lexicographic, a proper prefix is Less.
Less == "Less"
Equal == "Equal"
Greater == "Greater"

RECURSIVE cmp(_, _)
cmp(a, b) ==
    IF a = <<>> /\ b = <<>> THEN Equal
    ELSE IF a = <<>> THEN Less
    ELSE IF b = <<>> THEN Greater
    ELSE IF Head(a) < Head(b) THEN Less
    ELSE IF Head(a) > Head(b) THEN Greater
    ELSE cmp(Tail(a), Tail(b))

\* period_start <= period <= period_end, each bound applying when it is Some
in_range_exclusive(period, period_start, period_end) ==
    /\ (period_start = None \/ cmp(period, period_start[1]) = Greater)
    /\ (period_end = None \/ cmp(period, period_end[1]) = Less)

in_range(period, period_start, period_end) ==
    /\ (period_start = None \/ cmp(period, period_start[1]) # Less)
    /\ (period_end = None \/ cmp(period, period_end[1]) # Greater)

status_ok_activeany(status_filter, status) ==
    \/ status_filter = STATUS_FILTER_ALL
    \/ status_filter = STATUS_ACTIVE
    \/ (status_filter = STATUS_REVOKED /\ status = STATUS_REVOKED)

status_ok(status_filter, status) ==
    \/ status_filter = STATUS_FILTER_ALL
    \/ (status_filter = STATUS_ACTIVE /\ status = STATUS_ACTIVE)
    \/ (status_filter = STATUS_REVOKED /\ status = STATUS_REVOKED)

version_ok(version_filter, ver) ==
    version_filter = None \/ version_filter[1] = ver

\* The arguments of one get_attestations_page call.
PageArgs(business, periods, period_start, period_end, status_filter, version_filter, limit, cursor) ==
    [business |-> business, periods |-> periods, period_start |-> period_start,
     period_end |-> period_end, status_filter |-> status_filter,
     version_filter |-> version_filter, limit |-> limit, cursor |-> cursor]

\* One candidate of the walk: out after the candidate at index i (0-based).
visit(st, a, i, out) ==
    LET period == a.periods[i + 1]
        found == get(st, <<a.business, period>>)
    IN  IF ~in_range(period, a.period_start, a.period_end) THEN out
        ELSE IF found = None THEN out
        ELSE LET root == found[1][1]
                 ts == found[1][2]
                 ver == found[1][3]
                 status == get_status(st, a.business, period)
             IN  IF status_ok(a.status_filter, status) /\ version_ok(a.version_filter, ver)
                 THEN Append(out, <<period, root, ts, ver, status>>)
                 ELSE out

\* while i < len && out.len() < limit { ...; i += 1; scanned += 1 }
RECURSIVE walk_loop(_, _, _, _, _, _)
walk_loop(st, a, limit, i, out, scanned) ==
    IF i < Len(a.periods) /\ Len(out) < limit
    THEN walk_loop(st, a, limit, i + 1, visit(st, a, i, out), scanned + 1)
    ELSE [out |-> out, scanned |-> scanned]

\* mutant: the limit is not clamped to QUERY_LIMIT_MAX
get_attestations_page_unclamped(st, a) ==
    LET limit == a.limit
        len == Len(a.periods)
    IN  IF a.cursor >= len
        THEN [out |-> <<>>, next_cursor |-> a.cursor]
        ELSE LET w == walk_loop(st, a, limit, a.cursor, <<>>, 0)
             IN  [out |-> w.out, next_cursor |-> a.cursor + w.scanned]

\* mutant: the cursor advances by the number of results, not of scanned periods
get_attestations_page_bycount(st, a) ==
    LET limit == Min(a.limit, QUERY_LIMIT_MAX)
        len == Len(a.periods)
    IN  IF a.cursor >= len
        THEN [out |-> <<>>, next_cursor |-> a.cursor]
        ELSE LET w == walk_loop(st, a, limit, a.cursor, <<>>, 0)
             IN  [out |-> w.out, next_cursor |-> a.cursor + Len(w.out)]

\* mutant: the walk also stops after limit scanned periods
get_attestations_page_window(st, a) ==
    LET limit == Min(a.limit, QUERY_LIMIT_MAX)
        len == Len(a.periods)
        cut == [a EXCEPT !.periods = SubSeq(a.periods, 1, Min(len, a.cursor + limit))]
    IN  IF a.cursor >= len
        THEN [out |-> <<>>, next_cursor |-> a.cursor]
        ELSE LET w == walk_loop(st, cut, limit, a.cursor, <<>>, 0)
             IN  [out |-> w.out, next_cursor |-> a.cursor + w.scanned]

\* mutant: a period skipped by the range filter is not counted as scanned
get_attestations_page_skipuncounted(st, a) ==
    LET limit == Min(a.limit, QUERY_LIMIT_MAX)
        len == Len(a.periods)
    IN  IF a.cursor >= len
        THEN [out |-> <<>>, next_cursor |-> a.cursor]
        ELSE LET w == walk_loop(st, a, limit, a.cursor, <<>>, 0)
                 counted == {j \in a.cursor .. (a.cursor + w.scanned - 1) :
                               in_range(a.periods[j + 1], a.period_start, a.period_end)}
             IN  [out |-> w.out, next_cursor |-> a.cursor + Cardinality(counted)]

\* mutant: a cursor past the end is brought back to the end
get_attestations_page_clampcursor(st, a) ==
    LET limit == Min(a.limit, QUERY_LIMIT_MAX)
        len == Len(a.periods)
    IN  IF a.cursor >= len
        THEN [out |-> <<>>, next_cursor |-> len]
        ELSE LET w == walk_loop(st, a, limit, a.cursor, <<>>, 0)
             IN  [out |-> w.out, next_cursor |-> a.cursor + w.scanned]

\* mutant: the walk stops one candidate before the end of the list
get_attestations_page_shortlen(st, a) ==
    LET limit == Min(a.limit, QUERY_LIMIT_MAX)
        len == Len(a.periods)
        cut == [a EXCEPT !.periods = SubSeq(a.periods, 1, len - 1)]
    IN  IF a.cursor >= len
        THEN [out |-> <<>>, next_cursor |-> a.cursor]
        ELSE LET w == walk_loop(st, cut, limit, a.cursor, <<>>, 0)
             IN  [out |-> w.out, next_cursor |-> a.cursor + w.scanned]

\* mutant: after a full page the cursor stays on the last accepted candidate
get_attestations_page_repeatlast(st, a) ==
    LET limit == Min(a.limit, QUERY_LIMIT_MAX)
        len == Len(a.periods)
    IN  IF a.cursor >= len
        THEN [out |-> <<>>, next_cursor |-> a.cursor]
        ELSE LET w == walk_loop(st, a, limit, a.cursor, <<>>, 0)
                 back == IF w.scanned > 0 /\ Len(w.out) = limit THEN 1 ELSE 0
             IN  [out |-> w.out, next_cursor |-> a.cursor + w.scanned - back]

get_attestations_page(st, a) ==
    LET limit == Min(a.limit, QUERY_LIMIT_MAX)
        len == Len(a.periods)
    IN  IF a.cursor >= len
        THEN [out |-> <<>>, next_cursor |-> a.cursor]
        ELSE LET w == walk_loop(st, a, limit, a.cursor, <<>>, 0)
             IN  [out |-> w.out, next_cursor |-> a.cursor + w.scanned]

(* ------------------------------- the state ----------------------------- *)
\* storage: the contract's instance storage
\* last:    the last invocation: entry point, arguments, error, returned value
\* walk:    the pagination walk the last query belongs to: how many calls it
\*          has made, the cursor it started from, the results collected so far
VARIABLES storage, last, walk

vars == <<storage, last, walk>>

NoWalk == [calls |-> 0, from |-> 0, acc |-> <<>>]

Call(op, args, r) == [op |-> op, args |-> args, err |-> r.err, ret |-> r.ret]

Init ==
    /\ storage = EmptyStorage
    /\ last = [op |-> "deploy", args |-> None, err |-> NoErr, ret |-> None]
    /\ walk = NoWalk

SubmitAttestation(business, period, d) ==
    LET r == submit_attestation(storage, business, period, d[1], d[2], d[3])
    IN  /\ storage' = r.st
        /\ last' = Call("submit_attestation",
                        [business |-> business, period |-> period, data |-> d], r)
        /\ walk' = NoWalk

GetAttestation(business, period) ==
    /\ last' = Call("get_attestation", [business |-> business, period |-> period],
                    [err |-> NoErr, ret |-> get_attestation(storage, business, period)])
    /\ walk' = NoWalk
    /\ UNCHANGED storage

VerifyAttestation(business, period, merkle_root) ==
    /\ last' = Call("verify_attestation",
                    [business |-> business, period |-> period, merkle_root |-> merkle_root],
                    [err |-> NoErr,
                     ret |-> verify_attestation(storage, business, period, merkle_root)])
    /\ walk' = NoWalk
    /\ UNCHANGED storage

InitAdmin(invoker, admin) ==
    LET r == init(storage, invoker, admin)
    IN  /\ storage' = r.st
        /\ last' = Call("init", [invoker |-> invoker, admin |-> admin], r)
        /\ walk' = NoWalk

RevokeAttestation(invoker, caller, business, period) ==
    LET r == revoke_attestation(storage, invoker, caller, business, period)
    IN  /\ storage' = r.st
        /\ last' = Call("revoke_attestation",
                        [invoker |-> invoker, caller |-> caller,
                         business |-> business, period |-> period], r)
        /\ walk' = NoWalk

\* A query with fresh arguments starts a walk.
\* mutant: the query keeps its cursor in the instance storage
GetAttestationsPage_savecursor(a) ==
    LET r == get_attestations_page(storage, a)
    IN  /\ last' = Call("get_attestations_page", a, [err |-> NoErr, ret |-> r])
        /\ walk' = [calls |-> 1, from |-> a.cursor, acc |-> r.out]
        /\ storage' = set(storage, <<3>>, r.next_cursor)

GetAttestationsPage(a) ==
    LET r == get_attestations_page(storage, a)
    IN  /\ last' = Call("get_attestations_page", a, [err |-> NoErr, ret |-> r])
        /\ walk' = [calls |-> 1, from |-> a.cursor, acc |-> r.out]
        /\ UNCHANGED storage

\* The caller passes next_cursor back as the cursor, every other argument as before.
ResumePage ==
    /\ last.op = "get_attestations_page"
    /\ walk.calls < MaxCalls
    /\ LET a == [last.args EXCEPT !.cursor = last.ret.next_cursor]
           r == get_attestations_page(storage, a)
       IN  /\ last' = Call("get_attestations_page", a, [err |-> NoErr, ret |-> r])
           /\ walk' = [walk EXCEPT !.calls = @ + 1, !.acc = @ \o r.out]
    /\ UNCHANGED storage

(* ------------------------------ query inputs --------------------------- *)
\* every list of at most n periods over S
Lists(S, n) == UNION {[1 .. k -> S] : k \in 0 .. n}

\* two lists of three periods, of which one has never a record
MixedLists == {<<Q2, Q1, Q1x>>, <<Q1, Q2, Q1>>}

\* the long list: LongLen times the period Q1
LongList == [k \in 1 .. LongLen |-> Q1]

StatusFilters == {STATUS_ACTIVE, STATUS_REVOKED, STATUS_FILTER_ALL}

\* the queries of the store specification: one list, no range, one business each
StoreCalls ==
    {PageArgs(b, <<Q1, Q1x>>, None, None, sf, None, 1, 0) :
        b \in Businesses, sf \in StatusFilters}

\* the queries of the query specification, over short lists ...
ShortCalls ==
    {PageArgs("A", ps, s, e, sf, vf, l, c) :
        ps \in Lists(ListPeriods, MaxLen) \cup MixedLists, s \in {None, Some(Q1x)},
        e \in {None, Some(Q1x)}, sf \in StatusFilters, vf \in {None, Some(1)},
        l \in 0 .. MaxLen, c \in 0 .. MaxLen}

\* ... and over the long list
LongCalls ==
    {PageArgs("A", LongList, s, None, STATUS_FILTER_ALL, None, l, c) :
        s \in {None, Some(Q9)}, l \in {10, QUERY_LIMIT_MAX + 1}, c \in {0, 25}}

PageCalls == ShortCalls \cup LongCalls

(* ----------------------------- specifications ------------------------- *)
\* A query leaves the storage as it is, so a fresh query made right after
\* another query reaches nothing a fresh query made before it does not reach:
\* fresh queries are taken from the states other calls lead to.
FreshQuery(Calls) ==
    /\ last.op # "get_attestations_page"
    /\ \E a \in Calls : GetAttestationsPage(a)

ReadStep(Ks) ==
    \/ \E k \in Ks : GetAttestation(k[1], k[2])
    \/ \E k \in Ks, root \in Roots : VerifyAttestation(k[1], k[2], root)

WriteStep(Ks, As) ==
    \/ \E k \in Ks, d \in Data : SubmitAttestation(k[1], k[2], d)
    \/ \E i \in As, a \in As : InitAdmin(i, a)
    \/ \E i \in As, c \in As, k \in Ks : RevokeAttestation(i, c, k[1], k[2])

\* The store: two businesses, two principals, a few queries.
Next ==
    \/ ReadStep(Keys)
    \/ WriteStep(Keys, Addresses)
    \/ FreshQuery(StoreCalls)
    \/ ResumePage

Spec == Init /\ [][Next]_vars

\* The query engine: one business and its admin build the store, then the
\* queries range over lists, ranges, filters, limits and cursors.  A query
\* leaves the storage as it is, so every pair of a storage the writes reach and
\* a query is reached although no write follows a query here.
NextPage ==
    \/ (last.op # "get_attestations_page" /\ WriteStep({k \in Keys : k[1] = "A"}, {"Admin"}))
    \/ FreshQuery(PageCalls)
    \/ ResumePage

SpecPage == Init /\ [][NextPage]_vars

TypeOK ==
    /\ last.err \in {NoErr, AuthError, DuplicateAttestation, AdminAlreadySet,
                     AdminNotSet, NotAdmin, AttestationNotFound}
    /\ walk.calls \in 0 .. MaxCalls

(* ================================ claims =============================== *)
RecordKey(b, p) == <<b, p>>
StatusKey(b, p) == <<STATUS_KEY_TAG, b, p>>
RecordKeys(st) == {k \in DOMAIN st : Len(k) = 2}
StatusKeys(st) == {k \in DOMAIN st : Len(k) = 3}

IsCall(op) == last.op = op
IsPage == IsCall("get_attestations_page")

\* C1: submit_attestation for a key that already has a record fails with the
\* duplicate-attestation error, whatever data it carries, and get_attestation
\* for that key returns after the call what it returned before.
C1_DuplicateSubmitFails ==
    [][(last'.op = "submit_attestation"
          /\ has(storage, RecordKey(last'.args.business, last'.args.period)))
       => /\ last'.err = DuplicateAttestation
          /\ get_attestation(storage', last'.args.business, last'.args.period)
               = get_attestation(storage, last'.args.business, last'.args.period)]_vars

\* a duplicate submit with other data than the stored record has been rejected
C1_Witness ==
    /\ IsCall("submit_attestation")
    /\ last.err = DuplicateAttestation
    /\ get_attestation(storage, last.args.business, last.args.period)
         # Some(last.args.data)

\* C2: a record, once stored, is stored in every later state with the same
\* (merkle_root, timestamp, version): no call overwrites or deletes it.
C2_RecordsPersist ==
    [][\A k \in RecordKeys(storage) : has(storage', k) /\ storage'[k] = storage[k]]_vars

\* a revocation has succeeded on a stored record
C2_Witness ==
    /\ IsCall("revoke_attestation")
    /\ last.err = NoErr
    /\ has(storage, RecordKey(last.args.business, last.args.period))

\* C3: revoke_attestation succeeds only when an admin is set, the caller is that
\* admin and the record exists; a call by another caller or before init fails;
\* a failed call leaves every status as it was.
C3_RevokeAuthorized ==
    [][last'.op = "revoke_attestation"
       => /\ (last'.err = NoErr
                => /\ has(storage, ADMIN_KEY_TAG)
                   /\ last'.args.caller = storage[ADMIN_KEY_TAG]
                   /\ has(storage, RecordKey(last'.args.business, last'.args.period)))
          /\ ((~has(storage, ADMIN_KEY_TAG) \/ last'.args.caller # storage[ADMIN_KEY_TAG])
                => last'.err # NoErr)
          /\ (last'.err # NoErr
                => \A k \in Keys :
                     get(storage', StatusKey(k[1], k[2])) = get(storage, StatusKey(k[1], k[2])))]_vars

\* an authenticated caller other than the admin was refused on a stored, active record
C3_Witness ==
    /\ IsCall("revoke_attestation")
    /\ last.err = NotAdmin
    /\ has(storage, RecordKey(last.args.business, last.args.period))
    /\ get_status(storage, last.args.business, last.args.period) = STATUS_ACTIVE

\* C4: once the effective status of a key is Revoked it is Revoked in every
\* later state; no call sets it back to Active.
C4_RevokedForever ==
    [][\A k \in Keys :
         get_status(storage, k[1], k[2]) = STATUS_REVOKED
           => get_status(storage', k[1], k[2]) = STATUS_REVOKED]_vars

\* a submit for a revoked key was attempted, and the key is still revoked
C4_Witness ==
    /\ IsCall("submit_attestation")
    /\ last.err = DuplicateAttestation
    /\ get_status(storage, last.args.business, last.args.period) = STATUS_REVOKED

\* C5: the admin is write-once: a successful init stores its argument; once an
\* admin is stored every init fails (with the admin-already-set error when the
\* call is authenticated) and the stored admin stays what it was.
C5_AdminWriteOnce ==
    [][/\ (has(storage, ADMIN_KEY_TAG)
             => /\ has(storage', ADMIN_KEY_TAG)
                /\ storage'[ADMIN_KEY_TAG] = storage[ADMIN_KEY_TAG]
                /\ (last'.op = "init"
                      => /\ last'.err # NoErr
                         /\ (require_auth(last'.args.invoker, last'.args.admin)
                               => last'.err = AdminAlreadySet)))
       /\ ((last'.op = "init" /\ last'.err = NoErr)
             => /\ ~has(storage, ADMIN_KEY_TAG)
                /\ get(storage', ADMIN_KEY_TAG) = Some(last'.args.admin))]_vars

\* a later init with another address was refused
C5_Witness ==
    /\ IsCall("init")
    /\ last.err = AdminAlreadySet
    /\ storage[ADMIN_KEY_TAG] # last.args.admin

\* C6 as stated: every query with cursor < length(periods) returns a
\* next_cursor strictly greater than cursor and at most length(periods),
\* for every limit.
C6_Original ==
    (IsPage /\ last.args.cursor < Len(last.args.periods))
      => /\ last.ret.next_cursor > last.args.cursor
         /\ last.ret.next_cursor <= Len(last.args.periods)

\* C6 amended: the same for every limit of at least 1.
C6_Progress ==
    (IsPage /\ last.args.cursor < Len(last.args.periods) /\ last.args.limit >= 1)
      => /\ last.ret.next_cursor > last.args.cursor
         /\ last.ret.next_cursor <= Len(last.args.periods)

\* a page without results has advanced the cursor
C6_Witness ==
    /\ IsPage
    /\ last.args.cursor < Len(last.args.periods)
    /\ last.args.limit >= 1
    /\ last.ret.out = <<>>
    /\ last.ret.next_cursor > last.args.cursor

\* the query of 4.2's fifth scenario: the long list, no period in range
IsScenario5 ==
    /\ IsPage
    /\ last.args.periods = LongList
    /\ last.args.period_start = Some(Q9)
    /\ last.args.limit = 10
    /\ last.args.cursor = 0

\* C7 as stated: one query scans at most min(limit, 30) candidates, and the
\* query over the long list none of whose periods is in range, with limit 10
\* and cursor 0, returns (empty, 10).
C7_Original ==
    /\ IsPage => last.ret.next_cursor - last.args.cursor
                   <= Min(last.args.limit, QUERY_LIMIT_MAX)
    /\ IsScenario5 => last.ret = [out |-> <<>>, next_cursor |-> 10]

\* C7 amended: one query scans at most the candidates from cursor to the end
\* of the list, and it scans all of them unless the page is full; the query
\* over the long list none of whose periods is in range returns
\* (empty, length of the list).
C7_ScanBoundedByList ==
    /\ (IsPage /\ last.args.cursor < Len(last.args.periods))
         => /\ last.ret.next_cursor - last.args.cursor
                 <= Len(last.args.periods) - last.args.cursor
            /\ (Len(last.ret.out) < Min(last.args.limit, QUERY_LIMIT_MAX)
                  => last.ret.next_cursor = Len(last.args.periods))
    /\ IsScenario5 => last.ret = [out |-> <<>>, next_cursor |-> LongLen]

\* the query of the scenario has scanned more candidates than its limit
C7_Witness ==
    /\ IsScenario5
    /\ last.ret.next_cursor - last.args.cursor > Min(last.args.limit, QUERY_LIMIT_MAX)

\* C8 as stated: a walk that feeds next_cursor back has reached
\* next_cursor = length(periods) by its call number length(periods), from any
\* starting cursor and for every limit.
C8_Original ==
    (IsPage /\ walk.calls >= Len(last.args.periods))
      => last.ret.next_cursor = Len(last.args.periods)

\* C8 amended: for a starting cursor of at most length(periods) and a limit of
\* at least 1, every call of the walk advances by at least one candidate until
\* the end: after n calls next_cursor >= min(length(periods), start + n), and
\* never exceeds length(periods); so the end is reached within
\* length(periods) - start calls.
C8_WalkTerminates ==
    (IsPage /\ last.args.limit >= 1 /\ walk.from <= Len(last.args.periods))
      => /\ last.ret.next_cursor <= Len(last.args.periods)
         /\ last.ret.next_cursor >= Min(Len(last.args.periods), walk.from + walk.calls)

\* a walk of several calls, one candidate a call, has just reached the end
C8_Witness ==
    /\ IsPage
    /\ last.args.limit >= 1
    /\ walk.calls >= 2
    /\ walk.calls = Len(last.args.periods) - walk.from
    /\ last.args.cursor < Len(last.args.periods)
    /\ last.ret.next_cursor = Len(last.args.periods)

\* C9: a query returns at most min(limit, 30) results, whatever the limit.
C9_PageCap ==
    IsPage => Len(last.ret.out) <= Min(last.args.limit, QUERY_LIMIT_MAX)

\* a query with a limit above the cap returned exactly the cap
C9_Witness ==
    /\ IsPage
    /\ last.args.limit > QUERY_LIMIT_MAX
    /\ Len(last.ret.out) = QUERY_LIMIT_MAX

\* C10 as stated: every stored status entry has the value Revoked.
C10_Original ==
    \A k \in StatusKeys(storage) : storage[k] = STATUS_REVOKED

\* C10 amended: every stored status entry has the value Active or Revoked and
\* every record has one: a successful submit_attestation writes the Active
\* entry of its key.
C10_StatusEntries ==
    /\ \A k \in StatusKeys(storage) : storage[k] \in {STATUS_ACTIVE, STATUS_REVOKED}
    /\ \A k \in RecordKeys(storage) : has(storage, StatusKey(k[1], k[2]))
    /\ (IsCall("submit_attestation") /\ last.err = NoErr)
         => get(storage, StatusKey(last.args.business, last.args.period))
              = Some(STATUS_ACTIVE)

\* a submit has succeeded and the status entry of its key is stored as Active
C10_Witness ==
    /\ IsCall("submit_attestation")
    /\ last.err = NoErr
    /\ has(storage, StatusKey(last.args.business, last.args.period))
    /\ storage[StatusKey(last.args.business, last.args.period)] = STATUS_ACTIVE

\* C11: verify_attestation returns true exactly when a record exists for the
\* key and its stored merkle_root equals the given root: false for a key
\* without record and for every other root, in every reachable state.
C11_VerifyIffStoredRoot ==
    /\ \A k \in Keys, root \in Roots :
         verify_attestation(storage, k[1], k[2], root)
           = (has(storage, RecordKey(k[1], k[2]))
                /\ storage[RecordKey(k[1], k[2])][1] = root)
    /\ IsCall("verify_attestation")
         => last.ret = (has(storage, RecordKey(last.args.business, last.args.period))
                          /\ storage[RecordKey(last.args.business, last.args.period)][1]
                               = last.args.merkle_root)

\* a verification of an attested key with another root than the stored one returned false
C11_Witness ==
    /\ IsCall("verify_attestation")
    /\ has(storage, RecordKey(last.args.business, last.args.period))
    /\ storage[RecordKey(last.args.business, last.args.period)][1] # last.args.merkle_root
    /\ last.ret = FALSE

\* C12: an authenticated revoke_attestation that fails reports the first
\* violated precondition: admin-not-set when no admin is stored, whatever the
\* caller and key; otherwise not-admin when the caller is not the admin,
\* whether or not the record exists; otherwise attestation-not-found when the
\* key has no record.
C12_RevokeErrors ==
    [][(last'.op = "revoke_attestation"
          /\ require_auth(last'.args.invoker, last'.args.caller))
       => last'.err =
            IF ~has(storage, ADMIN_KEY_TAG) THEN AdminNotSet
            ELSE IF last'.args.caller # storage[ADMIN_KEY_TAG] THEN NotAdmin
            ELSE IF ~has(storage, RecordKey(last'.args.business, last'.args.period))
                 THEN AttestationNotFound
            ELSE NoErr]_vars

\* a caller other than the admin was refused as not-admin for a key without record
C12_Witness ==
    /\ IsCall("revoke_attestation")
    /\ last.err = NotAdmin
    /\ ~has(storage, RecordKey(last.args.business, last.args.period))

\* C13: a successful revoke_attestation changes the status of its key and
\* nothing else of it: get_attestation returns what it returned before and
\* verify_attestation with the stored root is still true.
C13_RevokeKeepsRecord ==
    [][(last'.op = "revoke_attestation" /\ last'.err = NoErr)
       => /\ get_attestation(storage, last'.args.business, last'.args.period) # None
          /\ get_attestation(storage', last'.args.business, last'.args.period)
               = get_attestation(storage, last'.args.business, last'.args.period)
          /\ verify_attestation(storage', last'.args.business, last'.args.period,
                                storage[RecordKey(last'.args.business, last'.args.period)][1])
          /\ get_status(storage', last'.args.business, last'.args.period) = STATUS_REVOKED]_vars

\* a revocation has just turned an active key into a revoked one
C13_Witness ==
    /\ IsCall("revoke_attestation")
    /\ last.err = NoErr
    /\ get_status(storage, last.args.business, last.args.period) = STATUS_REVOKED
    /\ verify_attestation(storage, last.args.business, last.args.period,
                          storage[RecordKey(last.args.business, last.args.period)][1])

\* C14: submit_attestation for a key without record succeeds, whether an
\* admin is set or not; afterwards get_attestation returns exactly the
\* submitted (merkle_root, timestamp, version) and the effective status of
\* the key is Active.
C14_FreshSubmitSucceeds ==
    [][(last'.op = "submit_attestation"
          /\ ~has(storage, RecordKey(last'.args.business, last'.args.period)))
       => /\ last'.err = NoErr
          /\ get_attestation(storage', last'.args.business, last'.args.period)
               = Some(last'.args.data)
          /\ get_status(storage', last'.args.business, last'.args.period)
               = STATUS_ACTIVE]_vars

\* a submit has succeeded before any admin was set
C14_Witness ==
    /\ IsCall("submit_attestation")
    /\ last.err = NoErr
    /\ ~has(storage, ADMIN_KEY_TAG)
    /\ get_attestation(storage, last.args.business, last.args.period) = Some(last.args.data)

(* ------------- the filter a query is claimed to compute --------------- *)
\* the period is within the bounds that are set, both inclusive
WithinBounds(a, p) ==
    /\ (a.period_start = None \/ cmp(p, a.period_start[1]) \in {Equal, Greater})
    /\ (a.period_end = None \/ cmp(p, a.period_end[1]) \in {Equal, Less})

\* the effective status of a key: Revoked when stored so, Active otherwise
EffectiveStatus(st, b, p) ==
    IF has(st, StatusKey(b, p)) /\ st[StatusKey(b, p)] = STATUS_REVOKED
    THEN STATUS_REVOKED ELSE STATUS_ACTIVE

StatusMatches(st, a, p) ==
    \/ a.status_filter = STATUS_FILTER_ALL
    \/ (a.status_filter = STATUS_ACTIVE /\ EffectiveStatus(st, a.business, p) = STATUS_ACTIVE)
    \/ (a.status_filter = STATUS_REVOKED /\ EffectiveStatus(st, a.business, p) = STATUS_REVOKED)

VersionMatches(st, a, p) ==
    a.version_filter = None \/ a.version_filter = Some(st[RecordKey(a.business, p)][3])

Accepted(st, a, p) ==
    /\ WithinBounds(a, p)
    /\ has(st, RecordKey(a.business, p))
    /\ StatusMatches(st, a, p)
    /\ VersionMatches(st, a, p)

Entry(st, b, p) ==
    <<p, st[RecordKey(b, p)][1], st[RecordKey(b, p)][2], st[RecordKey(b, p)][3],
      EffectiveStatus(st, b, p)>>

\* the entries of the accepted periods at the indices lo .. hi-1 (0-based), in order
RECURSIVE Collect(_, _, _, _)
Collect(st, a, lo, hi) ==
    IF lo >= hi THEN <<>>
    ELSE (IF Accepted(st, a, a.periods[lo + 1])
          THEN <<Entry(st, a.business, a.periods[lo + 1])>> ELSE <<>>)
         \o Collect(st, a, lo + 1, hi)

\* C15: a query with cursor >= length(periods) returns no result and the
\* cursor it was given, for every limit and filter; the same query made again
\* with the returned cursor returns the same.
C15_PastEndIsStable ==
    [][(last'.op = "get_attestations_page"
          /\ last'.args.cursor >= Len(last'.args.periods))
       => /\ last'.ret = [out |-> <<>>, next_cursor |-> last'.args.cursor]
          /\ ((IsPage /\ last.args.cursor >= Len(last.args.periods))
                => (last'.args = last.args /\ last'.ret = last.ret))]_vars

\* a query with a cursor past the end was repeated with the returned cursor
C15_Witness ==
    /\ IsPage
    /\ last.args.cursor > Len(last.args.periods)
    /\ walk.calls >= 2
    /\ walk.from = last.args.cursor
    /\ last.ret = [out |-> <<>>, next_cursor |-> last.args.cursor]

\* the indices (0-based) one query has scanned
Scanned == last.args.cursor .. (last.ret.next_cursor - 1)

\* C16: a revoked period in the window a query scans is never returned under
\* status_filter = Active, and is returned with status Revoked and its stored
\* root, timestamp and version under status_filter = Revoked when the range
\* and the version filter admit it; a revoked period at the cursor is counted
\* as scanned by a query with a limit of at least 1.
C16_RevokedInPages ==
    IsPage =>
      /\ \A j \in Scanned :
           LET p == last.args.periods[j + 1]
               b == last.args.business
           IN  (has(storage, RecordKey(b, p)) /\ get_status(storage, b, p) = STATUS_REVOKED)
               => /\ (last.args.status_filter = STATUS_ACTIVE
                        => \A i \in 1 .. Len(last.ret.out) : last.ret.out[i][1] # p)
                  /\ ((last.args.status_filter = STATUS_REVOKED
                         /\ WithinBounds(last.args, p) /\ VersionMatches(storage, last.args, p))
                        => \E i \in 1 .. Len(last.ret.out) :
                             last.ret.out[i] = <<p, storage[RecordKey(b, p)][1],
                                                 storage[RecordKey(b, p)][2],
                                                 storage[RecordKey(b, p)][3], STATUS_REVOKED>>)
      /\ (/\ last.args.cursor < Len(last.args.periods)
          /\ last.args.limit >= 1
          /\ get_status(storage, last.args.business,
                        last.args.periods[last.args.cursor + 1]) = STATUS_REVOKED)
           => last.args.cursor \in Scanned

\* the fourth scenario of the specification: the one revoked period is
\* returned under the Revoked filter, with next_cursor 1
C16_Witness ==
    /\ IsPage
    /\ last.args.periods = <<Q1>>
    /\ last.args.cursor = 0
    /\ last.args.status_filter = STATUS_REVOKED
    /\ last.ret = [out |-> <<<<Q1, "R1", 1000, 1, STATUS_REVOKED>>>>, next_cursor |-> 1]

\* C17: the results of one query are exactly, in list order, the entries of
\* the periods at the indices cursor .. next_cursor-1 that are within the set
\* bounds (inclusive), have a record, match status_filter and have the version
\* of version_filter when it is set; each entry carries the stored root,
\* timestamp and version and the effective status.
C17_PageIsFilter ==
    IsPage => last.ret.out = Collect(storage, last.args, last.args.cursor, last.ret.next_cursor)

\* a query under a range has accepted some of the periods it scanned and rejected others
C17_Witness ==
    /\ IsPage
    /\ last.args.period_start # None
    /\ last.args.period_end # None
    /\ last.ret.out # <<>>
    /\ Len(last.ret.out) < last.ret.next_cursor - last.args.cursor

\* C18: a query that returns next_cursor < length(periods) has a full page,
\* min(limit, 30) results, and the last period it scanned, at index
\* next_cursor - 1, is its last result.
C18_EarlyStopMeansFull ==
    (IsPage /\ last.args.cursor < Len(last.args.periods)
            /\ last.ret.next_cursor < Len(last.args.periods))
      => /\ Len(last.ret.out) = Min(last.args.limit, QUERY_LIMIT_MAX)
         /\ (Scanned # {}
               => /\ last.ret.out # <<>>
                  /\ Accepted(storage, last.args, last.args.periods[last.ret.next_cursor])
                  /\ last.ret.out[Len(last.ret.out)]
                       = Entry(storage, last.args.business,
                               last.args.periods[last.ret.next_cursor]))

\* a query stopped before the end with a full page after rejecting a candidate
C18_Witness ==
    /\ IsPage
    /\ last.args.limit >= 1
    /\ last.ret.next_cursor < Len(last.args.periods)
    /\ Len(last.ret.out) = last.args.limit
    /\ last.ret.next_cursor - last.args.cursor > Len(last.ret.out)

\* C19: with a limit of at least 1, the results of the calls of a walk from
\* cursor 0, concatenated, are the entries a single pass over the periods
\* scanned so far yields; when next_cursor is length(periods) they are the
\* entries of a single pass over the whole list, each occurrence once, in order.
C19_WalkIsOnePass ==
    (IsPage /\ walk.from = 0 /\ last.args.limit >= 1)
      => /\ walk.acc = Collect(storage, last.args, 0, last.ret.next_cursor)
         /\ (last.ret.next_cursor = Len(last.args.periods)
               => walk.acc = Collect(storage, last.args, 0, Len(last.args.periods)))

\* a walk of several pages has reached the end with every period of the list accepted
C19_Witness ==
    /\ IsPage
    /\ walk.from = 0
    /\ walk.calls >= 2
    /\ last.args.cursor > 0
    /\ last.ret.out # <<>>
    /\ last.ret.next_cursor = Len(last.args.periods)
    /\ Len(walk.acc) = Len(last.args.periods)

\* C20: every mutation touches a single attestation key: a successful
\* submit_attestation writes the record and the status of its key only, a
\* successful revoke_attestation the status of its key only, so the records
\* and statuses of all other keys and the admin are as before; init leaves
\* every record and every status as it was.
C20_SingleKeyWrites ==
    [][LET target == RecordKey(last'.args.business, last'.args.period)
           status == StatusKey(last'.args.business, last'.args.period)
           Same(ks) == \A k \in ((DOMAIN storage) \cup (DOMAIN storage')) \ ks :
                         get(storage', k) = get(storage, k)
       IN  /\ (last'.op = "submit_attestation" /\ last'.err = NoErr) => Same({target, status})
           /\ (last'.op = "revoke_attestation" /\ last'.err = NoErr) => Same({status})
           /\ last'.op = "init" => Same({ADMIN_KEY_TAG})]_vars

\* a revocation has succeeded while another key of the same business is attested and active
C20_Witness ==
    /\ IsCall("revoke_attestation")
    /\ last.err = NoErr
    /\ \E k \in Keys :
         /\ k[1] = last.args.business
         /\ k[2] # last.args.period
         /\ has(storage, RecordKey(k[1], k[2]))
         /\ get(storage, StatusKey(k[1], k[2])) = Some(STATUS_ACTIVE)

ReadOps == {"get_attestation", "verify_attestation", "get_attestations_page"}

\* C21: get_attestation, verify_attestation and get_attestations_page leave
\* the whole storage (records, statuses, admin) as it was, and a read call made
\* again with the same arguments, no write in between, returns the same.
C21_ReadsArePure ==
    [][last'.op \in ReadOps
       => /\ storage' = storage
          /\ last'.err = NoErr
          /\ ((last.op = last'.op /\ last.args = last'.args) => last'.ret = last.ret)]_vars

\* a query was made again with the arguments and the result of the call before it,
\* on a storage that holds a record
C21_Witness ==
    /\ IsPage
    /\ walk.calls >= Len(last.args.periods) + 2
    /\ last.args.cursor = Len(last.args.periods)
    /\ last.ret.next_cursor = last.args.cursor
    /\ RecordKeys(storage) # {}

\* C22: a status entry is stored for a key only if a record is stored for it:
\* no sequence of calls yields a status for a key that was never submitted.
C22_StatusOnlyWithRecord ==
    \A k \in StatusKeys(storage) : has(storage, RecordKey(k[2], k[3]))

\* the admin was refused the revocation of a key without record, which has no
\* status entry, while another key is revoked
C22_Witness ==
    /\ IsCall("revoke_attestation")
    /\ last.err = AttestationNotFound
    /\ ~has(storage, StatusKey(last.args.business, last.args.period))
    /\ \E k \in StatusKeys(storage) : storage[k] = STATUS_REVOKED

\* C23: the admin a successful init stores is the principal that authorised
\* the call: an init naming another address than its invoker fails and writes
\* nothing, and while no admin is set every principal's init naming itself
\* succeeds.
C23_AdminIsInvoker ==
    [][last'.op = "init"
       => /\ (last'.err = NoErr
                => /\ storage'[ADMIN_KEY_TAG] = last'.args.invoker
                   /\ last'.args.admin = last'.args.invoker)
          /\ (last'.args.admin # last'.args.invoker
                => (last'.err # NoErr /\ storage' = storage))
          /\ ((~has(storage, ADMIN_KEY_TAG) /\ last'.args.admin = last'.args.invoker)
                => last'.err = NoErr)]_vars

\* a principal other than "Admin" was first and installed itself
C23_Witness ==
    /\ IsCall("init")
    /\ last.err = NoErr
    /\ last.args.invoker = "Other"
    /\ storage[ADMIN_KEY_TAG] = "Other"

====
